---- MODULE Spec2Model ----
(***************************************************************************)
(* The scoring pipeline of src/app.py: eight metric evaluations in a fixed *)
(* order, each appending one row to `contributions` and adding its weight  *)
(* to a running score, followed by the percentage and the recommendation   *)
(* of the long-term and the short-term bucket.                             *)
(*                                                                         *)
(* Numbers.  Python floats are modelled exactly where the code only        *)
(* compares them: a fundamental is an integer count of 1/Milli units, a    *)
(* close is an integer price, a moving average is a window sum compared by *)
(* cross-multiplication, and the RSI is the fraction 100*G/(G+L).  The     *)
(* exponential moving averages are carried in fixed point (1/FixScale).    *)
(* None is the empty tuple and a present number v is <<v>>.                *)
(*                                                                         *)
(* pandas.  where(cond, 0) puts 0 where the condition is false or NaN, so  *)
(* the first delta counts as a gain and a loss of 0; rolling(w).mean() is  *)
(* NaN until w bars are in the window; a float division x/0 is inf and 0/0 *)
(* is NaN; any comparison with NaN is False; ewm(span, adjust=False) is    *)
(* y[0] = x[0], y[t] = (1 - a) * y[t-1] + a * x[t] with a = 2 / (span+1).  *)
(* The closes drawn are integers, for which the window sums are exact, and *)
(* on every series drawn the sign of macd - signal is the same in IEEE     *)
(* doubles and in the fixed-point averages.  The page holds only the two   *)
(* final score lines; the table, the charts and the per-metric st.write    *)
(* lines show values the ledger already holds.  The labels are modelled    *)
(* without their leading emoji.                                            *)
(***************************************************************************)
EXTENDS Integers, Sequences, FiniteSets, TLC

VARIABLES pc, info, hist_long, hist_short, contributions,
          long_term_score, short_term_score, rsi_val,
          long_pct, short_pct, lt_rec, st_rec_val, page

vars == <<pc, info, hist_long, hist_short, contributions,
          long_term_score, short_term_score, rsi_val,
          long_pct, short_pct, lt_rec, st_rec_val, page>>

(* ----------------------------- bounds --------------------------------- *)
\* resolution of the decimal inputs: a fundamental v stands for v / Milli
Milli == 1000
\* resolution of the fixed-point exponential moving averages
FixScale == 10000
\* lowest close of the generated price series
BasePrice == 10
\* long series have 0 or MaMinBars-1 .. MaMinBars+LongExtra bars
LongExtra == 1
\* short series have 0 or RsiPeriod-1 .. RsiPeriod+ShortExtra bars, or WarmLen
ShortExtra == 1

(* ------------------------- program constants --------------------------- *)
RsiPeriod == 14
MaWindowShort == 50
MaWindowLong == 200
MaMinBars == 200
MacdFast == 12
MacdSlow == 26
MacdSignal == 9
StrongBuyPct == 75
HoldPct == 50

metrics_weights ==
    [pe |-> 15, eps |-> 10, roe |-> 10, rg |-> 10, de |-> 10,
     ma |-> 15, rsi |-> 15, macd |-> 15]

max_long == metrics_weights.pe + metrics_weights.eps + metrics_weights.roe
            + metrics_weights.rg + metrics_weights.de + metrics_weights.ma
max_short == metrics_weights.rsi + metrics_weights.macd

(* --------------------------- Python values ----------------------------- *)
None == <<>>
Some(v) == <<v>>
IsNone(x) == x = None
Val(x) == x[1]
\* bool(x) of an optional number: None and 0 are falsy
Truthy(x) == (~IsNone(x)) /\ Val(x) # 0

\* round-half-even of num/den, den > 0
RoundHalfEven(num, den) ==
    LET q == num \div den
        r == num % den
    IN  IF 2 * r < den THEN q
        ELSE IF 2 * r > den THEN q + 1
        ELSE IF q % 2 = 0 THEN q ELSE q + 1

NA == <<"N/A">>
\* f"{x:.2f}" of x = v / Milli: the text of a number of hundredths
Format2f(v) == <<"%.2f", RoundHalfEven(v * 100, Milli)>>
\* f"{x:.2f}%"
Format2fPct(v) == <<"%.2f%", RoundHalfEven(v * 100, Milli)>>

PrependRow(ledger, row) == <<row>> \o ledger

\* contributions.append(row)
AppendRow(ledger, row) == Append(ledger, row)

Row(metric, value, threshold, contribution, window) ==
    [Metric |-> metric, Value |-> value, Threshold |-> threshold,
     Contribution |-> contribution, Window |-> window]

(* ------------------------- indicator library --------------------------- *)
\* a float that is NaN, +inf, or the fraction n/d with d > 0
NaN == [k |-> "nan", n |-> 0, d |-> 1]
Inf == [k |-> "inf", n |-> 0, d |-> 1]
Frac(num, den) == [k |-> "fin", n |-> num, d |-> den]

\* a > b of two floats; any comparison with NaN is False
FloatGt(a, b) ==
    /\ a.k = "fin"
    /\ b.k = "fin"
    /\ a.n * b.d > b.n * a.d

\* the sum of close[lo..hi], by halving the range
SumClose(close, lo, hi) ==
    LET sum[r \in (0..(Len(close) + 1)) \X (0..(Len(close) + 1))] ==
            IF r[1] > r[2] THEN 0
            ELSE IF r[1] = r[2] THEN close[r[1]]
            ELSE sum[<<r[1], (r[1] + r[2]) \div 2>>]
                 + sum[<<(r[1] + r[2]) \div 2 + 1, r[2]>>]
    IN  sum[<<lo, hi>>]

\* Series.rolling(window).mean().iloc[-1] of a non-empty series
RollingMeanLast(close, window) ==
    IF Len(close) < window THEN NaN
    ELSE Frac(SumClose(close, Len(close) - window + 1, Len(close)), window)

\* delta.where(delta > 0, 0): the first delta is NaN and becomes 0
Gain(close, j) ==
    IF j = 1 THEN 0
    ELSE IF close[j] - close[j - 1] > 0 THEN close[j] - close[j - 1] ELSE 0

\* -delta.where(delta < 0, 0)
Loss(close, j) ==
    IF j = 1 THEN 0
    ELSE IF close[j] - close[j - 1] < 0 THEN close[j - 1] - close[j] ELSE 0

RECURSIVE SumGain(_, _, _)
SumGain(close, lo, hi) ==
    IF lo > hi THEN 0 ELSE Gain(close, hi) + SumGain(close, lo, hi - 1)

RECURSIVE SumLoss(_, _, _)
SumLoss(close, lo, hi) ==
    IF lo > hi THEN 0 ELSE Loss(close, hi) + SumLoss(close, lo, hi - 1)

\* rs = avg_gain / avg_loss at bar i >= period: x/0 is inf, 0/0 is NaN
RsInfAsNaN(g, l) ==
    IF l = 0 THEN NaN ELSE Frac(g, l)

Rs(g, l) ==
    IF l = 0 THEN (IF g = 0 THEN NaN ELSE Inf) ELSE Frac(g, l)

\* 100 - (100 / (1 + rs))
RsiOfRs(rs) ==
    IF rs.k = "nan" THEN NaN
    ELSE IF rs.k = "inf" THEN Frac(100, 1)
    ELSE Frac(100 * rs.n, rs.n + rs.d)

\* calculate_rsi(data)[i]: NaN before the rolling window is full
calculate_rsi(close, i) ==
    IF i < RsiPeriod THEN NaN
    ELSE RsiOfRs(Rs(SumGain(close, i - RsiPeriod + 1, i),
                    SumLoss(close, i - RsiPeriod + 1, i)))

\* the RSI of the latest bar at or before i that has one, or None
RECURSIVE LastRsiUpTo(_, _)
LastRsiUpTo(close, i) ==
    IF i < 1 THEN None
    ELSE IF calculate_rsi(close, i).k # "nan" THEN Some(calculate_rsi(close, i))
    ELSE LastRsiUpTo(close, i - 1)

\* hist_short['RSI'].dropna(), then iloc[-1] or None
LastRsi(close) == LastRsiUpTo(close, Len(close))

\* one step of Series.ewm(span, adjust=False).mean(): alpha = 2 / (span + 1)
EwmStep(prev, cur, span) ==
    ((span - 1) * prev + 2 * cur) \div (span + 1)

\* the fast and slow averages of the closes, their difference (macd_line)
\* and its signal average (signal_line), one bar after the bar with values p
MacdStep(p, x) ==
    LET f == EwmStep(p.fast, x * FixScale, MacdFast)
        s == EwmStep(p.slow, x * FixScale, MacdSlow)
    IN  [fast |-> f, slow |-> s, macd |-> f - s,
         signal |-> EwmStep(p.signal, f - s, MacdSignal)]

\* the four values at bar i, all seeded by the first sample
MacdAt(close, i) ==
    LET at[j \in 1..Len(close)] ==
            IF j = 1
            THEN [fast |-> close[1] * FixScale, slow |-> close[1] * FixScale,
                  macd |-> 0, signal |-> 0]
            ELSE CHOOSE r \in {MacdStep(p, close[j]) : p \in {at[j - 1]}} : TRUE
    IN  at[i]

(* --------------------------- metric rules ------------------------------ *)
PePass(pe) == Truthy(pe) /\ Val(pe) < 25 * Milli
EpsPass(eps) == Truthy(eps) /\ Val(eps) > 0
RoePass(roe) == Truthy(roe) /\ 100 * Val(roe) > 15 * Milli
RgPass(rg) == Truthy(rg) /\ 100 * Val(rg) > 10 * Milli
DePass(de) == (~IsNone(de)) /\ Val(de) < 1 * Milli

\* roe*100 if roe else None
TimesHundred(x) == IF Truthy(x) THEN Some(Val(x) * 100) ELSE None

MaCrossAtLeast(close) ==
    /\ Len(close) >= MaMinBars
    /\ FloatGt(RollingMeanLast(close, MaWindowShort),
               RollingMeanLast(close, MaWindowLong))

\* bool(len(hist_long) > 200) and (MA50.iloc[-1] > MA200.iloc[-1])
MaCross(close) ==
    /\ Len(close) > MaMinBars
    /\ FloatGt(RollingMeanLast(close, MaWindowShort),
               RollingMeanLast(close, MaWindowLong))

RsiPass(rsi) ==
    /\ ~IsNone(rsi)
    /\ FloatGt(Val(rsi), Frac(30, 1))
    /\ FloatGt(Frac(70, 1), Val(rsi))

\* round(rsi_val, 2), in hundredths
Round2(x) == <<"round2", RoundHalfEven(100 * x.n, x.d)>>

MacdPassNonStrict(close) ==
    /\ Len(close) > 0
    /\ LET last == MacdAt(close, Len(close)) IN last.macd >= last.signal

\* both lines have a value and macd_line.iloc[-1] > signal_line.iloc[-1]
MacdPass(close) ==
    /\ Len(close) > 0
    /\ LET last == MacdAt(close, Len(close)) IN last.macd > last.signal

(* ---------------------------- aggregation ------------------------------ *)
PctRounded(score, max) == (score * 200 + max) \div (2 * max)

\* int((score / max) * 100)
Pct(score, max) == (score * 100) \div max

LtRecStrict(p) ==
    IF p > StrongBuyPct THEN "Long-Term: Strong Buy"
    ELSE IF p >= HoldPct THEN "Long-Term: Hold" ELSE "Long-Term: Sell"

LtRec(p) ==
    IF p >= StrongBuyPct THEN "Long-Term: Strong Buy"
    ELSE IF p >= HoldPct THEN "Long-Term: Hold" ELSE "Long-Term: Sell"

StRec(p) ==
    IF p >= StrongBuyPct THEN "Short-Term: Strong Buy"
    ELSE IF p >= HoldPct THEN "Short-Term: Hold" ELSE "Short-Term: Sell"

(* ------------------------------ inputs --------------------------------- *)
\* closes of n bars
Up(n) == [i \in 1..n |-> BasePrice + i]
Down(n) == [i \in 1..n |-> BasePrice + n - i]
Flat(n) == [i \in 1..n |-> BasePrice]
Zig(n) == [i \in 1..n |-> BasePrice + (i % 2)]
Step(n) == [i \in 1..n |-> IF i = 1 THEN BasePrice ELSE BasePrice + 1]

\* a price history: the timestamps (the frame's index) and the Close column
Ordered(n) == [i \in 1..n |-> i]
Swapped(n) == [i \in 1..n |-> IF i = 1 THEN 2 ELSE IF i = 2 THEN 1 ELSE i]
Frame(index, close) == [index |-> index, Close |-> close]

StrictlyIncreasing(seq) ==
    \A i \in 1..(Len(seq) - 1) : seq[i] < seq[i + 1]

LongLens == (MaMinBars - 1)..(MaMinBars + LongExtra)
LongFrames ==
    {Frame(<<>>, <<>>), Frame(Swapped(MaMinBars + 1), Up(MaMinBars + 1))}
    \cup {Frame(Ordered(n), Up(n)) : n \in LongLens}
    \cup {Frame(Ordered(n), Down(n)) : n \in LongLens}
    \cup {Frame(Ordered(n), Flat(n)) : n \in LongLens}

WarmLen == MacdSlow + 1
ShortLens == ((RsiPeriod - 1)..(RsiPeriod + ShortExtra)) \cup {WarmLen}
ShortFrames ==
    {Frame(<<>>, <<>>), Frame(Swapped(RsiPeriod + 1), Zig(RsiPeriod + 1))}
    \cup {Frame(Ordered(n), Up(n)) : n \in ShortLens}
    \cup {Frame(Ordered(n), Down(n)) : n \in ShortLens}
    \cup {Frame(Ordered(n), Flat(n)) : n \in ShortLens}
    \cup {Frame(Ordered(n), Zig(n)) : n \in ShortLens}
    \cup {Frame(Ordered(n), Step(n)) : n \in ShortLens}

\* stock.info: each field absent, zero, just passing or just failing
Kinds == {"none", "zero", "pass", "fail"}
PeSample == [none |-> None, zero |-> Some(0),
             pass |-> Some(25 * Milli - 4), fail |-> Some(25 * Milli)]
EpsSample == [none |-> None, zero |-> Some(0),
              pass |-> Some(1), fail |-> Some(0 - Milli)]
RoeSample == [none |-> None, zero |-> Some(0),
              pass |-> Some((15 * Milli) \div 100 + 1),
              fail |-> Some((15 * Milli) \div 100)]
RgSample == [none |-> None, zero |-> Some(0),
             pass |-> Some((10 * Milli) \div 100 + 1),
             fail |-> Some((10 * Milli) \div 100)]
DeSample == [none |-> None, zero |-> Some(0),
             pass |-> Some(Milli - 1), fail |-> Some(Milli)]

Info(a, b, c, d, e) ==
    [trailingPE |-> PeSample[a], trailingEps |-> EpsSample[b],
     returnOnEquity |-> RoeSample[c], revenueGrowth |-> RgSample[d],
     debtToEquity |-> DeSample[e]]

Infos == {Info(a, b, c, d, e) : a \in Kinds, b \in Kinds, c \in Kinds,
                                 d \in Kinds, e \in Kinds}
UniformInfos == {Info(k, k, k, k, k) : k \in Kinds}

\* the runs: every info with a rising long history of MaMinBars + 1 bars
\* and a zigzag short history of RsiPeriod + 1 bars, and every pair of
\* histories with the four uniform infos
Inputs ==
    (Infos
       \X {Frame(Ordered(MaMinBars + 1), Up(MaMinBars + 1))}
       \X {Frame(Ordered(RsiPeriod + 1), Zig(RsiPeriod + 1))})
    \cup (UniformInfos \X LongFrames \X ShortFrames)

(* ----------------------------- pipeline -------------------------------- *)
\* lines 62-64 and 86-88: the data is fetched, the scores and the ledger
\* are initialised; nothing is evaluated yet
Init ==
    /\ pc = "pe"
    /\ \E inp \in Inputs :
          /\ info = inp[1]
          /\ hist_long = inp[2]
          /\ hist_short = inp[3]
    /\ contributions = <<>>
    /\ long_term_score = 0
    /\ short_term_score = 0
    /\ rsi_val = None
    /\ long_pct = None
    /\ short_pct = None
    /\ lt_rec = None
    /\ st_rec_val = None
    /\ page = <<>>

\* EvalPE behind a validation of both histories that stops the run
EvalPEValidated ==
    /\ pc = "pe"
    /\ hist_long.Close # <<>> /\ StrictlyIncreasing(hist_long.index)
    /\ hist_short.Close # <<>> /\ StrictlyIncreasing(hist_short.index)
    /\ LET pe == info.trailingPE
           pe_pass == PePass(pe)
       IN  /\ contributions' = AppendRow(contributions,
                 Row("P/E Ratio", IF Truthy(pe) THEN Format2f(Val(pe)) ELSE NA,
                     "<25", IF pe_pass THEN metrics_weights.pe ELSE 0, "Fundamental"))
           /\ long_term_score' =
                 IF pe_pass THEN long_term_score + metrics_weights.pe
                 ELSE long_term_score
    /\ pc' = "eps"
    /\ UNCHANGED <<info, hist_long, hist_short, short_term_score, rsi_val,
                   long_pct, short_pct, lt_rec, st_rec_val, page>>

EvalPE ==
    /\ pc = "pe"
    /\ LET pe == info.trailingPE
           pe_pass == PePass(pe)
       IN  /\ contributions' = AppendRow(contributions,
                 Row("P/E Ratio", IF Truthy(pe) THEN Format2f(Val(pe)) ELSE NA,
                     "<25", IF pe_pass THEN metrics_weights.pe ELSE 0, "Fundamental"))
           /\ long_term_score' =
                 IF pe_pass THEN long_term_score + metrics_weights.pe
                 ELSE long_term_score
    /\ pc' = "eps"
    /\ UNCHANGED <<info, hist_long, hist_short, short_term_score, rsi_val,
                   long_pct, short_pct, lt_rec, st_rec_val, page>>

\* EvalEPS comparing the field without the bool(eps) guard: None > 0 raises
EvalEPSUnguarded ==
    /\ pc = "eps"
    /\ ~IsNone(info.trailingEps)
    /\ LET eps == info.trailingEps
           eps_pass == EpsPass(eps)
       IN  /\ contributions' = AppendRow(contributions,
                 Row("EPS", IF Truthy(eps) THEN Format2f(Val(eps)) ELSE NA,
                     ">0", IF eps_pass THEN metrics_weights.eps ELSE 0, "Fundamental"))
           /\ long_term_score' =
                 IF eps_pass THEN long_term_score + metrics_weights.eps
                 ELSE long_term_score
    /\ pc' = "roe"
    /\ UNCHANGED <<info, hist_long, hist_short, short_term_score, rsi_val,
                   long_pct, short_pct, lt_rec, st_rec_val, page>>

EvalEPS ==
    /\ pc = "eps"
    /\ LET eps == info.trailingEps
           eps_pass == EpsPass(eps)
       IN  /\ contributions' = AppendRow(contributions,
                 Row("EPS", IF Truthy(eps) THEN Format2f(Val(eps)) ELSE NA,
                     ">0", IF eps_pass THEN metrics_weights.eps ELSE 0, "Fundamental"))
           /\ long_term_score' =
                 IF eps_pass THEN long_term_score + metrics_weights.eps
                 ELSE long_term_score
    /\ pc' = "roe"
    /\ UNCHANGED <<info, hist_long, hist_short, short_term_score, rsi_val,
                   long_pct, short_pct, lt_rec, st_rec_val, page>>

EvalROE ==
    /\ pc = "roe"
    /\ LET roe == info.returnOnEquity
           roe_pct == TimesHundred(roe)
           roe_pass == RoePass(roe)
       IN  /\ contributions' = AppendRow(contributions,
                 Row("ROE (%)",
                     IF ~IsNone(roe_pct) THEN Format2fPct(Val(roe_pct)) ELSE NA,
                     ">15%", IF roe_pass THEN metrics_weights.roe ELSE 0, "Fundamental"))
           /\ long_term_score' =
                 IF roe_pass THEN long_term_score + metrics_weights.roe
                 ELSE long_term_score
    /\ pc' = "rg"
    /\ UNCHANGED <<info, hist_long, hist_short, short_term_score, rsi_val,
                   long_pct, short_pct, lt_rec, st_rec_val, page>>

EvalRG ==
    /\ pc = "rg"
    /\ LET rg == info.revenueGrowth
           rg_pct == TimesHundred(rg)
           rg_pass == RgPass(rg)
       IN  /\ contributions' = AppendRow(contributions,
                 Row("Revenue Growth (%)",
                     IF ~IsNone(rg_pct) THEN Format2fPct(Val(rg_pct)) ELSE NA,
                     ">10%", IF rg_pass THEN metrics_weights.rg ELSE 0, "Fundamental"))
           /\ long_term_score' =
                 IF rg_pass THEN long_term_score + metrics_weights.rg
                 ELSE long_term_score
    /\ pc' = "de"
    /\ UNCHANGED <<info, hist_long, hist_short, short_term_score, rsi_val,
                   long_pct, short_pct, lt_rec, st_rec_val, page>>

EvalDE ==
    /\ pc = "de"
    /\ LET de == info.debtToEquity
           de_pass == DePass(de)
       IN  /\ contributions' = AppendRow(contributions,
                 Row("Debt-to-Equity",
                     IF ~IsNone(de) THEN <<"raw", Val(de)>> ELSE NA,
                     "<1", IF de_pass THEN metrics_weights.de ELSE 0, "Fundamental"))
           /\ long_term_score' =
                 IF de_pass THEN long_term_score + metrics_weights.de
                 ELSE long_term_score
    /\ pc' = "ma"
    /\ UNCHANGED <<info, hist_long, hist_short, short_term_score, rsi_val,
                   long_pct, short_pct, lt_rec, st_rec_val, page>>

\* the Golden Cross, on the long history only
EvalMACross ==
    /\ pc = "ma"
    /\ LET ma_cross == MaCross(hist_long.Close)
       IN  /\ contributions' = AppendRow(contributions,
                 Row("Golden Cross", IF ma_cross THEN <<"Yes">> ELSE <<"No">>,
                     "Yes", IF ma_cross THEN metrics_weights.ma ELSE 0, "Price (3y)"))
           /\ long_term_score' =
                 IF ma_cross THEN long_term_score + metrics_weights.ma
                 ELSE long_term_score
    /\ pc' = "rsi"
    /\ UNCHANGED <<info, hist_long, hist_short, short_term_score, rsi_val,
                   long_pct, short_pct, lt_rec, st_rec_val, page>>

EvalRSI ==
    /\ pc = "rsi"
    /\ rsi_val' = LastRsi(hist_short.Close)
    /\ LET rsi_pass == RsiPass(rsi_val')
       IN  /\ contributions' = AppendRow(contributions,
                 Row("RSI", IF ~IsNone(rsi_val') THEN Round2(Val(rsi_val')) ELSE NA,
                     "30-70", IF rsi_pass THEN metrics_weights.rsi ELSE 0, "Price (3mo)"))
           /\ short_term_score' =
                 IF rsi_pass THEN short_term_score + metrics_weights.rsi
                 ELSE short_term_score
    /\ pc' = "macd"
    /\ UNCHANGED <<info, hist_long, hist_short, long_term_score,
                   long_pct, short_pct, lt_rec, st_rec_val, page>>

EvalMACD ==
    /\ pc = "macd"
    /\ LET macd_pass == MacdPass(hist_short.Close)
       IN  /\ contributions' = AppendRow(contributions,
                 Row("MACD", IF macd_pass THEN <<"Bullish">> ELSE <<"Bearish">>,
                     "Bullish", IF macd_pass THEN metrics_weights.macd ELSE 0, "Price (3mo)"))
           /\ short_term_score' =
                 IF macd_pass THEN short_term_score + metrics_weights.macd
                 ELSE short_term_score
    /\ pc' = "aggregate"
    /\ UNCHANGED <<info, hist_long, hist_short, long_term_score, rsi_val,
                   long_pct, short_pct, lt_rec, st_rec_val, page>>

\* lines 224-225
Aggregate ==
    /\ pc = "aggregate"
    /\ long_pct' = Some(Pct(long_term_score, max_long))
    /\ short_pct' = Some(Pct(short_term_score, max_short))
    /\ pc' = "recommend"
    /\ UNCHANGED <<info, hist_long, hist_short, contributions, long_term_score,
                   short_term_score, rsi_val, lt_rec, st_rec_val, page>>

\* lines 227-228
Recommend ==
    /\ pc = "recommend"
    /\ lt_rec' = Some(LtRec(Val(long_pct)))
    /\ st_rec_val' = Some(StRec(Val(short_pct)))
    /\ pc' = "emit"
    /\ UNCHANGED <<info, hist_long, hist_short, contributions, long_term_score,
                   short_term_score, rsi_val, long_pct, short_pct, page>>

\* lines 230-231: the two score lines are written to the page
Emit ==
    /\ pc = "emit"
    /\ page' = page \o <<<<"Long-Term Score", Val(long_pct), Val(lt_rec)>>,
                         <<"Short-Term Score", Val(short_pct), Val(st_rec_val)>>>>
    /\ pc' = "done"
    /\ UNCHANGED <<info, hist_long, hist_short, contributions, long_term_score,
                   short_term_score, rsi_val, long_pct, short_pct, lt_rec, st_rec_val>>

Next ==
    \/ EvalPE
    \/ EvalEPS
    \/ EvalROE
    \/ EvalRG
    \/ EvalDE
    \/ EvalMACross
    \/ EvalRSI
    \/ EvalMACD
    \/ Aggregate
    \/ Recommend
    \/ Emit

Spec == Init /\ [][Next]_vars

\* the script is one thread that runs to its last line
FairSpec == Spec /\ WF_vars(Next)

(* The recommendation rule on every percentage: the runs of Spec, and the  *)
(* rule applied to each pair of percentages in 0..100.                     *)
InitRec ==
    /\ pc = "recommend"
    /\ info = Info("none", "none", "none", "none", "none")
    /\ hist_long = Frame(<<>>, <<>>)
    /\ hist_short = Frame(<<>>, <<>>)
    /\ contributions = <<>>
    /\ long_term_score = 0
    /\ short_term_score = 0
    /\ rsi_val = None
    /\ long_pct \in {Some(p) : p \in 0..100}
    /\ short_pct \in {Some(p) : p \in 0..100}
    /\ lt_rec = None
    /\ st_rec_val = None
    /\ page = <<>>

SpecRec == (Init \/ InitRec) /\ [][Next]_vars

(* ------------------------------ claims --------------------------------- *)
PcOrder == <<"pe", "eps", "roe", "rg", "de", "ma", "rsi", "macd",
             "aggregate", "recommend", "emit", "done">>
PcIndex(p) == CHOOSE i \in 1..Len(PcOrder) : PcOrder[i] = p
Evaluated(k) == Len(contributions) >= k
Entry(k) == contributions[k]
Present(x) == x # None
LongClose == hist_long.Close
ShortClose == hist_short.Close
\* the latest 50-bar mean is above the latest 200-bar mean
MeansCrossed(close) ==
    /\ Len(close) >= 200
    /\ 200 * SumClose(close, Len(close) - 49, Len(close))
         > 50 * SumClose(close, Len(close) - 199, Len(close))
InBand(rsi) == 30 * rsi.d < rsi.n /\ rsi.n < 70 * rsi.d
MacdLast == MacdAt(ShortClose, Len(ShortClose))
RECURSIVE SumPoints(_, _)
SumPoints(lo, hi) ==
    IF lo > hi \/ lo > Len(contributions) THEN 0
    ELSE Entry(lo).Contribution + SumPoints(lo + 1, hi)

\* C1: every metric awards exactly its weight when its value is present and
\* passes its condition, exactly 0 when it is present and fails, and exactly
\* 0 with the value "N/A" when it is absent.
C1_WeightOrZero ==
    /\ Evaluated(1) =>
         LET x == info.trailingPE IN
         /\ (Present(x) /\ Val(x) < 25 * Milli) => Entry(1).Contribution = 15
         /\ (Present(x) /\ ~(Val(x) < 25 * Milli)) => Entry(1).Contribution = 0
         /\ ~Present(x) => (Entry(1).Contribution = 0 /\ Entry(1).Value = NA)
    /\ Evaluated(2) =>
         LET x == info.trailingEps IN
         /\ (Present(x) /\ Val(x) > 0) => Entry(2).Contribution = 10
         /\ (Present(x) /\ ~(Val(x) > 0)) => Entry(2).Contribution = 0
         /\ ~Present(x) => (Entry(2).Contribution = 0 /\ Entry(2).Value = NA)
    /\ Evaluated(3) =>
         LET x == info.returnOnEquity IN
         /\ (Present(x) /\ 100 * Val(x) > 15 * Milli) => Entry(3).Contribution = 10
         /\ (Present(x) /\ ~(100 * Val(x) > 15 * Milli)) => Entry(3).Contribution = 0
         /\ ~Present(x) => (Entry(3).Contribution = 0 /\ Entry(3).Value = NA)
    /\ Evaluated(4) =>
         LET x == info.revenueGrowth IN
         /\ (Present(x) /\ 100 * Val(x) > 10 * Milli) => Entry(4).Contribution = 10
         /\ (Present(x) /\ ~(100 * Val(x) > 10 * Milli)) => Entry(4).Contribution = 0
         /\ ~Present(x) => (Entry(4).Contribution = 0 /\ Entry(4).Value = NA)
    /\ Evaluated(5) =>
         LET x == info.debtToEquity IN
         /\ (Present(x) /\ Val(x) < Milli) => Entry(5).Contribution = 10
         /\ (Present(x) /\ ~(Val(x) < Milli)) => Entry(5).Contribution = 0
         /\ ~Present(x) => (Entry(5).Contribution = 0 /\ Entry(5).Value = NA)
    /\ Evaluated(6) =>
         Entry(6).Contribution =
             IF Len(LongClose) > 200 /\ MeansCrossed(LongClose) THEN 15 ELSE 0
    /\ Evaluated(7) =>
         /\ (Present(rsi_val) /\ InBand(Val(rsi_val))) => Entry(7).Contribution = 15
         /\ (Present(rsi_val) /\ ~InBand(Val(rsi_val))) => Entry(7).Contribution = 0
         /\ ~Present(rsi_val) => (Entry(7).Contribution = 0 /\ Entry(7).Value = NA)
    /\ Evaluated(8) =>
         Entry(8).Contribution =
             IF ShortClose # <<>> /\ MacdLast.macd > MacdLast.signal THEN 15 ELSE 0

\* C2: the running scores equal the sums of the points recorded in the
\* ledger for their bucket, and after aggregation each percentage is the
\* floor of 100 * sum / max (max 70 and 30) and lies in 0..100.
C2_PercentIsFloorOfLedgerSum ==
    /\ long_term_score = SumPoints(1, 6)
    /\ short_term_score = SumPoints(7, 8)
    /\ pc \in {"recommend", "emit", "done"} =>
         /\ Val(long_pct) \in 0..100
         /\ Val(short_pct) \in 0..100
         /\ 70 * Val(long_pct) <= 100 * SumPoints(1, 6)
         /\ 100 * SumPoints(1, 6) < 70 * (Val(long_pct) + 1)
         /\ 30 * Val(short_pct) <= 100 * SumPoints(7, 8)
         /\ 100 * SumPoints(7, 8) < 30 * (Val(short_pct) + 1)

C2_Witness ==
    /\ pc = "done"
    /\ SumPoints(1, 6) = 25
    /\ long_pct = Some(35)
    /\ SumPoints(7, 8) = 15
    /\ short_pct = Some(50)

\* C3: in each bucket the label is Strong Buy exactly for a percentage of
\* 75 or more, Hold exactly for 50..74 and Sell exactly below 50; a run
\* whose eight entries all award their weight ends 100% Strong Buy in both
\* buckets and a run whose entries all award 0 ends 0% Sell in both.
C3_Labels ==
    pc \in {"emit", "done"} =>
      LET lp == Val(long_pct)
          sp == Val(short_pct)
      IN  /\ (lt_rec = Some("Long-Term: Strong Buy")) <=> (lp >= 75)
          /\ (lt_rec = Some("Long-Term: Hold")) <=> (50 <= lp /\ lp <= 74)
          /\ (lt_rec = Some("Long-Term: Sell")) <=> (lp < 50)
          /\ (st_rec_val = Some("Short-Term: Strong Buy")) <=> (sp >= 75)
          /\ (st_rec_val = Some("Short-Term: Hold")) <=> (50 <= sp /\ sp <= 74)
          /\ (st_rec_val = Some("Short-Term: Sell")) <=> (sp < 50)
          /\ (Evaluated(8) /\ SumPoints(1, 8) = 100) =>
                /\ lp = 100 /\ lt_rec = Some("Long-Term: Strong Buy")
                /\ sp = 100 /\ st_rec_val = Some("Short-Term: Strong Buy")
          /\ (Evaluated(8) /\ SumPoints(1, 8) = 0) =>
                /\ lp = 0 /\ lt_rec = Some("Long-Term: Sell")
                /\ sp = 0 /\ st_rec_val = Some("Short-Term: Sell")

C3_Witness ==
    /\ pc = "done"
    /\ long_pct = Some(75)
    /\ lt_rec = Some("Long-Term: Strong Buy")
    /\ short_pct = Some(74)
    /\ st_rec_val = Some("Short-Term: Hold")

\* C4: a fundamental that is present and equal to 0 is shown as a value,
\* not as "N/A", and is scored by its threshold alone: P/E = 0 and
\* debt-to-equity = 0 pass (15 and 10 points), EPS = 0, ROE = 0 and Revenue
\* Growth = 0 fail with 0 points.
C4_ZeroIsPresent ==
    /\ (Evaluated(1) /\ info.trailingPE = Some(0)) =>
          (Entry(1).Value # NA /\ Entry(1).Contribution = 15)
    /\ (Evaluated(2) /\ info.trailingEps = Some(0)) =>
          (Entry(2).Value # NA /\ Entry(2).Contribution = 0)
    /\ (Evaluated(3) /\ info.returnOnEquity = Some(0)) =>
          (Entry(3).Value # NA /\ Entry(3).Contribution = 0)
    /\ (Evaluated(4) /\ info.revenueGrowth = Some(0)) =>
          (Entry(4).Value # NA /\ Entry(4).Contribution = 0)
    /\ (Evaluated(5) /\ info.debtToEquity = Some(0)) =>
          (Entry(5).Value # NA /\ Entry(5).Contribution = 10)

MetricOrder == <<"P/E Ratio", "EPS", "ROE (%)", "Revenue Growth (%)",
                 "Debt-to-Equity", "Golden Cross", "RSI", "MACD">>

\* C5: the ledger is always a prefix of the fixed metric order; a step of
\* the evaluation pass appends exactly one entry and leaves the earlier
\* entries as they were, a step after it leaves the ledger unchanged, and
\* from aggregation on the ledger holds exactly the 8 entries.
C5_AppendOnly ==
    /\ [](/\ Len(contributions) <= 8
          /\ \A i \in 1..Len(contributions) : Entry(i).Metric = MetricOrder[i]
          /\ PcIndex(pc) <= 8 => Len(contributions) = PcIndex(pc) - 1
          /\ PcIndex(pc) > 8 => Len(contributions) = 8)
    /\ [][IF PcIndex(pc) <= 8
          THEN /\ Len(contributions') = Len(contributions) + 1
               /\ SubSeq(contributions', 1, Len(contributions)) = contributions
          ELSE contributions' = contributions]_vars

C5_Witness ==
    /\ pc = "aggregate"
    /\ Len(contributions) = 8
    /\ Entry(1).Value = NA
    /\ Entry(2).Contribution = 10
    /\ Entry(5).Contribution = 0
    /\ Entry(7).Contribution = 15
    /\ Entry(8).Contribution = 15

\* C6: the Golden Cross entry is "Yes" with 15 points exactly when the long
\* series has more than 200 bars and its latest 50-bar mean is above its
\* latest 200-bar mean; with 200 bars or fewer it is "No" with 0 points
\* whatever the means are; the short series plays no part.
C6_GoldenCross ==
    Evaluated(6) =>
      /\ (Entry(6).Value = <<"Yes">>)
            <=> (Len(LongClose) > 200 /\ MeansCrossed(LongClose))
      /\ Entry(6).Value \in {<<"Yes">>, <<"No">>}
      /\ Entry(6).Contribution = IF Entry(6).Value = <<"Yes">> THEN 15 ELSE 0
      /\ Len(LongClose) <= 200 =>
            (Entry(6).Value = <<"No">> /\ Entry(6).Contribution = 0)

C6_Witness ==
    /\ Evaluated(6)
    /\ Len(LongClose) = 200
    /\ MeansCrossed(LongClose)
    /\ ShortClose # <<>>
    /\ StrictlyIncreasing(ShortClose)
    /\ Entry(6).Value = <<"No">>
    /\ Entry(6).Contribution = 0

\* C7: on a short series of more than 14 bars with strictly increasing
\* closes the RSI is 100 (a value, neither NaN nor absent) and the RSI
\* entry shows 100.00 and awards 0 points.
C7_RisingRsiIsHundred ==
    (Evaluated(7) /\ Len(ShortClose) > 14 /\ StrictlyIncreasing(ShortClose)) =>
      /\ Present(rsi_val)
      /\ Val(rsi_val).k = "fin"
      /\ Val(rsi_val).n = 100 * Val(rsi_val).d
      /\ Entry(7).Value = <<"round2", 10000>>
      /\ Entry(7).Contribution = 0

C7_Witness ==
    /\ Evaluated(7)
    /\ Len(ShortClose) = 15
    /\ StrictlyIncreasing(ShortClose)
    /\ rsi_val = Some(Frac(100, 1))
    /\ Entry(7).Contribution = 0

\* C8: on a non-empty short series whose closes are all equal the MACD line
\* and the signal line are both 0 at the latest bar and the MACD entry is
\* "Bearish" with 0 points.
C8_FlatMacdIsBearish ==
    (Evaluated(8) /\ ShortClose # <<>>
       /\ \A i \in 1..Len(ShortClose) : ShortClose[i] = ShortClose[1]) =>
      /\ MacdLast.macd = 0
      /\ MacdLast.signal = 0
      /\ Entry(8).Value = <<"Bearish">>
      /\ Entry(8).Contribution = 0

C8_Witness ==
    /\ Evaluated(8)
    /\ Len(ShortClose) = 15
    /\ \A i \in 1..Len(ShortClose) : ShortClose[i] = ShortClose[1]
    /\ Entry(8).Value = <<"Bearish">>

Malformed(h) == h.Close = <<>> \/ ~StrictlyIncreasing(h.index)

\* C9 as claimed: with an empty or unordered series the run stops before
\* that series is scored and before any percentage or recommendation.
C9_FailsFast ==
    /\ Malformed(hist_long) => ~Evaluated(6)
    /\ Malformed(hist_short) => ~Evaluated(7)
    /\ (Malformed(hist_long) \/ Malformed(hist_short)) =>
          /\ long_pct = None /\ short_pct = None
          /\ lt_rec = None /\ st_rec_val = None
          /\ page = <<>>

\* C9 as amended: an empty or unordered series does not stop the run.  The
\* next step is always enabled until the two score lines are written; the
\* metrics are evaluated on the closes in the order given, whatever the
\* timestamps; an empty long series gives Golden Cross "No" with 0 points
\* and an empty short series gives RSI "N/A" and MACD "Bearish" with 0
\* points each.
C9_MalformedIsScored ==
    (Malformed(hist_long) \/ Malformed(hist_short)) =>
      /\ pc # "done" => ENABLED Next
      /\ pc = "done" =>
            /\ Evaluated(8) /\ Len(page) = 2
            /\ Present(long_pct) /\ Present(short_pct)
            /\ Present(lt_rec) /\ Present(st_rec_val)
      /\ Evaluated(6) =>
            ((Entry(6).Value = <<"Yes">>)
               <=> (Len(LongClose) > 200 /\ MeansCrossed(LongClose)))
      /\ (Evaluated(6) /\ LongClose = <<>>) =>
            (Entry(6).Value = <<"No">> /\ Entry(6).Contribution = 0)
      /\ (Evaluated(7) /\ ~StrictlyIncreasing(hist_short.index)) =>
            (Entry(7).Contribution = 15 <=>
               (\E i \in 1..Len(ShortClose) :
                   /\ calculate_rsi(ShortClose, i).k = "fin"
                   /\ \A j \in (i + 1)..Len(ShortClose) :
                         calculate_rsi(ShortClose, j).k = "nan"
                   /\ InBand(calculate_rsi(ShortClose, i))))
      /\ (Evaluated(7) /\ ShortClose = <<>>) =>
            (Entry(7).Value = NA /\ Entry(7).Contribution = 0)
      /\ (Evaluated(8) /\ ShortClose = <<>>) =>
            (Entry(8).Value = <<"Bearish">> /\ Entry(8).Contribution = 0)

C9_Witness ==
    /\ pc = "done"
    /\ LongClose = <<>>
    /\ ShortClose # <<>>
    /\ ~StrictlyIncreasing(hist_short.index)
    /\ Entry(7).Contribution = 15
    /\ Len(page) = 2

\* each step moves to the next position of the fixed order
LinearPass == [][PcIndex(pc') = PcIndex(pc) + 1]_vars

\* an absent fundamental is a 0-point "N/A" entry
MissingFieldScoresZero ==
    /\ (Evaluated(1) /\ ~Present(info.trailingPE)) =>
          (Entry(1).Value = NA /\ Entry(1).Contribution = 0)
    /\ (Evaluated(2) /\ ~Present(info.trailingEps)) =>
          (Entry(2).Value = NA /\ Entry(2).Contribution = 0)
    /\ (Evaluated(3) /\ ~Present(info.returnOnEquity)) =>
          (Entry(3).Value = NA /\ Entry(3).Contribution = 0)
    /\ (Evaluated(4) /\ ~Present(info.revenueGrowth)) =>
          (Entry(4).Value = NA /\ Entry(4).Contribution = 0)
    /\ (Evaluated(5) /\ ~Present(info.debtToEquity)) =>
          (Entry(5).Value = NA /\ Entry(5).Contribution = 0)

\* the points of each entry are decided by the metric's own input alone
OwnInputDecides ==
    /\ Evaluated(1) =>
         LET x == info.trailingPE IN
         Entry(1).Contribution =
            IF Present(x) /\ Val(x) # 0 /\ Val(x) < 25 * Milli THEN 15 ELSE 0
    /\ Evaluated(2) =>
         LET x == info.trailingEps IN
         Entry(2).Contribution = IF Present(x) /\ Val(x) > 0 THEN 10 ELSE 0
    /\ Evaluated(3) =>
         LET x == info.returnOnEquity IN
         Entry(3).Contribution =
            IF Present(x) /\ 100 * Val(x) > 15 * Milli THEN 10 ELSE 0
    /\ Evaluated(4) =>
         LET x == info.revenueGrowth IN
         Entry(4).Contribution =
            IF Present(x) /\ 100 * Val(x) > 10 * Milli THEN 10 ELSE 0
    /\ Evaluated(5) =>
         LET x == info.debtToEquity IN
         Entry(5).Contribution = IF Present(x) /\ Val(x) < Milli THEN 10 ELSE 0
    /\ Evaluated(6) =>
         Entry(6).Contribution =
            IF Len(LongClose) > 200 /\ MeansCrossed(LongClose) THEN 15 ELSE 0
    /\ Evaluated(7) =>
         Entry(7).Contribution =
            IF Present(rsi_val) /\ InBand(Val(rsi_val)) THEN 15 ELSE 0
    /\ Evaluated(7) => rsi_val = LastRsi(ShortClose)
    /\ Evaluated(8) =>
         Entry(8).Contribution =
            IF ShortClose # <<>> /\ MacdLast.macd > MacdLast.signal THEN 15 ELSE 0

====
